---- MODULE Spec2Model ----
(***************************************************************************)
(* A model of the starlite repository contract                             *)
(* (starlite/contrib/repository/abc.py), of CompressionConfig's validation *)
(* (starlite/config/compression.py) and of the yield-dependency example    *)
(* (docs/examples/dependency_injection/dependency_yield_exceptions.py).    *)
(***************************************************************************)
EXTENDS Integers, Sequences, FiniteSets, TLC

VARIABLES
    id_attribute,   \* AbstractRepository.id_attribute of the repository class
    objs,           \* instances held by the caller, by reference
    collection,     \* the backend's stored records, by identifier
    next_id,        \* the backend's next generated identifier
    added,          \* history: identifier -> entity as add() returned it
    last,           \* the last call: operation, arguments, outcome
    config,         \* the last CompressionConfig(...) call and its outcome
    state,          \* the example's module-level STATE dict (STATE is reserved in TLA+)
    gen,            \* generator_function's position
    handler,        \* the index handler's position
    request,        \* requests served so far, and the current one
    openapi,        \* an OpenAPIConfig, the heap its components live in, the schemas returned
    paginator       \* the last call of PersonClassicPaginator and its outcome

vars == <<id_attribute, objs, collection, next_id, added, last, config,
          state, gen, handler, request, openapi, paginator>>

----------------------------------------------------------------------------
(* Python values.  A value carries its type, so that 0, "" and [] differ   *)
(* from None and from each other.                                          *)

None == [type |-> "NoneType", n |-> 0, s |-> ""]
PyInt(k) == [type |-> "int", n |-> k, s |-> ""]
PyStr(t) == [type |-> "str", n |-> 0, s |-> t]
PyList == [type |-> "list", n |-> 0, s |-> ""]
PyBool(b) == [type |-> "bool", n |-> IF b THEN 1 ELSE 0, s |-> ""]

\* bool(v): None, 0, "", [] and False are falsy; instances are truthy.
Truthy(v) ==
    IF DOMAIN v = {"type", "n", "s"}
    THEN CASE v.type = "NoneType" -> FALSE
           [] v.type = "int" -> v.n # 0
           [] v.type = "bool" -> v.n # 0
           [] v.type = "str" -> v.s # ""
           [] v.type = "list" -> FALSE
           [] OTHER -> TRUE
    ELSE TRUE

\* The outcome of a call: the exception raised ("" when none) and the value.
NoValue == [type |-> "<nothing>", n |-> 0, s |-> ""]
Return(v) == [raised |-> "", ret |-> v]
Raise(e) == [raised |-> e, ret |-> NoValue]

MaxId == 2
Names == {"a", "b"}
Refs == {"o1", "o2"}
Attrs == {"id", "pk", "name"}
IdAttributes == {"id", "pk"}
Ids == {PyInt(k) : k \in 1..MaxId}

----------------------------------------------------------------------------
(* The three helpers of AbstractRepository.                                *)

check_not_found_falsy(item_or_none) ==
    IF ~Truthy(item_or_none)
    THEN Raise("NotFoundError")
    ELSE Return(item_or_none)

check_not_found_silent(item_or_none) == Return(item_or_none)

check_not_found(item_or_none) ==
    IF item_or_none = None
    THEN Raise("NotFoundError")
    ELSE Return(item_or_none)

\* getattr(item, "id"): the override of id_attribute is ignored.
get_id_attribute_value_hardcoded(cls, item) ==
    IF "id" \in DOMAIN item
    THEN Return(item["id"])
    ELSE Raise("AttributeError")

get_id_attribute_value(cls, item) ==
    IF cls \in DOMAIN item
    THEN Return(item[cls])
    ELSE Raise("AttributeError")

\* setattr(item, "id", item_id): the override of id_attribute is ignored.
set_id_attribute_value_hardcoded(cls, item_id, item) ==
    [a \in DOMAIN item \cup {"id"} |-> IF a = "id" THEN item_id ELSE item[a]]

\* The item after setattr(item, cls.id_attribute, item_id); the method
\* returns the very instance it was given.
set_id_attribute_value(cls, item_id, item) ==
    [a \in DOMAIN item \cup {cls} |-> IF a = cls THEN item_id ELSE item[a]]

----------------------------------------------------------------------------
(* Calls and the parts of the state a specification leaves alone.          *)

PyRef(r) == [type |-> "ref", n |-> 0, s |-> r]
Call(op, args, outcome) ==
    [op |-> op, args |-> args, raised |-> outcome.raised, ret |-> outcome.ret]
NoCall == Call("", <<>>, Return(NoValue))

EmptyCollection == [i \in {} |-> None]

HelpersIdle == objs = [r \in Refs |-> [name |-> PyStr("a")]]
RepoIdle == collection = EmptyCollection /\ next_id = 1 /\ added = EmptyCollection
ConfigIdle == config = [called |-> FALSE]
ExampleIdle ==
    /\ state = [result |-> None, connection |-> PyStr("closed")]
    /\ gen = [pos |-> "none", sent |-> ""]
    /\ handler = Return(NoValue)
    /\ request = [served |-> 0, name |-> "", stage |-> "idle"]
OpenAPIIdle == openapi = [calls |-> 0]
PaginationIdle == paginator = NoCall

----------------------------------------------------------------------------
(* The helpers, called on arbitrary values and instances.                  *)

IdValues == Ids \cup {None, PyInt(0)}
TestValues ==
    {None, PyInt(0), PyInt(1), PyStr(""), PyStr("a"), PyList, PyBool(FALSE), PyBool(TRUE)}

\* Instances with and without the attributes "id" and "pk".
ItemsOver(D) ==
    {f \in [D -> IdValues \cup {PyStr("a")}] :
        \A a \in D : IF a = "name" THEN f[a] = PyStr("a") ELSE f[a] \in IdValues}
HelperItems ==
    UNION {ItemsOver(D) : D \in {{"name"}, {"id", "name"}, {"pk", "name"}, {"id", "pk", "name"}}}

InitHelpers ==
    /\ id_attribute \in IdAttributes
    /\ objs \in [Refs -> HelperItems]
    /\ last = NoCall
    /\ RepoIdle /\ ConfigIdle /\ ExampleIdle /\ OpenAPIIdle /\ PaginationIdle

CheckNotFound(x) ==
    /\ last' = Call("check_not_found", <<x>>, check_not_found(x))
    /\ UNCHANGED <<id_attribute, objs, collection, next_id, added, config,
                   state, gen, handler, request,
                   openapi, paginator>>

GetIdAttributeValue(r) ==
    /\ last' = Call("get_id_attribute_value", <<PyRef(r)>>,
                    get_id_attribute_value(id_attribute, objs[r]))
    /\ UNCHANGED <<id_attribute, objs, collection, next_id, added, config,
                   state, gen, handler, request,
                   openapi, paginator>>

SetIdAttributeValue(item_id, r) ==
    /\ objs' = [objs EXCEPT ![r] = set_id_attribute_value(id_attribute, item_id, objs[r])]
    /\ last' = Call("set_id_attribute_value", <<item_id, PyRef(r)>>, Return(PyRef(r)))
    /\ UNCHANGED <<id_attribute, collection, next_id, added, config,
                   state, gen, handler, request,
                   openapi, paginator>>

NextHelpers ==
    \/ \E x \in TestValues \cup HelperItems : CheckNotFound(x)
    \/ \E r \in Refs : GetIdAttributeValue(r)
    \/ \E item_id \in IdValues, r \in Refs : SetIdAttributeValue(item_id, r)

SpecHelpers == InitHelpers /\ [][NextHelpers]_vars

\* C1: check_not_found(x) raises NotFoundError exactly when x is None;
\* every other input, the falsy ones included, is returned as it is; the
\* call changes no state.
C1_CheckNotFound ==
    [][last'.op = "check_not_found" =>
        LET x == last'.args[1] IN
        /\ (last'.raised = "NotFoundError") <=> (x = None)
        /\ x # None => (last'.raised = "" /\ last'.ret = x)
        /\ UNCHANGED <<id_attribute, objs, collection, next_id, added>>]_vars

\* C1 witness: a falsy value other than None came back unchanged.
C1_Witness ==
    /\ last.op = "check_not_found"
    /\ last.args[1] \in {PyInt(0), PyStr(""), PyList}
    /\ last.raised = ""
    /\ last.ret = last.args[1]

\* C2: after set_id_attribute_value(v, item), get_id_attribute_value(item)
\* returns v; the call returns the instance it was given and changes no
\* other attribute of it, nor any other instance.
C2_SetThenGet ==
    [][last'.op = "set_id_attribute_value" =>
        LET r == last'.args[2].s IN
        /\ get_id_attribute_value(id_attribute, objs'[r]) = Return(last'.args[1])
        /\ last'.raised = ""
        /\ last'.ret = last'.args[2]
        /\ DOMAIN objs'[r] = DOMAIN objs[r] \cup {id_attribute}
        /\ \A a \in DOMAIN objs[r] \ {id_attribute} : objs'[r][a] = objs[r][a]
        /\ \A q \in Refs \ {r} : objs'[q] = objs[q]]_vars

\* C2 witness: a repository class that overrides id_attribute has set a
\* new identifier on an instance that keeps its own "id".
C2_Witness ==
    /\ last.op = "set_id_attribute_value"
    /\ id_attribute = "pk"
    /\ last.args[1] = PyInt(2)
    /\ LET item == objs[last.args[2].s] IN
        /\ DOMAIN item = {"id", "pk", "name"}
        /\ item["pk"] = PyInt(2)
        /\ item["id"] = PyInt(1)

----------------------------------------------------------------------------
(* A backend of the repository contract.  AbstractRepository declares the  *)
(* operations; the backend below is the in-memory one that the contract's  *)
(* documentation describes: records stored by identifier, identifiers      *)
(* generated by the backend when the instance has none.                    *)

MaxGen == 2
NoFilter == [kind |-> "", field_name |-> "", values |-> {}, before |-> None,
             after |-> None, limit |-> 0, offset |-> 0]
LimitOffset(limit, offset) == [NoFilter EXCEPT !.kind = "LimitOffset", !.limit = limit, !.offset = offset]
CollectionFilter(field_name, values) ==
    [NoFilter EXCEPT !.kind = "CollectionFilter", !.field_name = field_name, !.values = values]
BeforeAfter(field_name, before, after) ==
    [NoFilter EXCEPT !.kind = "BeforeAfter", !.field_name = field_name,
                     !.before = before, !.after = after]

\* An instance of model_type with the given identifier and name.
Entity(cls, item_id, name) ==
    [a \in Attrs |-> IF a = cls THEN item_id ELSE IF a = "name" THEN name ELSE None]

Put(coll, key, item) == [k \in DOMAIN coll \cup {key} |-> IF k = key THEN item ELSE coll[k]]
Remove(coll, key) == [k \in DOMAIN coll \ {key} |-> coll[k]]
\* dict.get(key): the record, or None
Lookup(coll, key) == IF key \in DOMAIN coll THEN coll[key] ELSE None
MinKey(S) == CHOOSE k \in S : \A j \in S : k.n <= j.n
Max(a, b) == IF a >= b THEN a ELSE b

RECURSIVE InKeyOrder(_, _)
InKeyOrder(coll, S) ==
    IF S = {} THEN <<>>
    ELSE LET k == MinKey(S) IN <<coll[k]>> \o InKeyOrder(coll, S \ {k})

\* The outcome of an operation that may change the stored records.
Outcome(res, coll, nid) ==
    [raised |-> res.raised, ret |-> res.ret, collection |-> coll, next_id |-> nid]

add(cls, coll, nid, data) ==
    LET cur == get_id_attribute_value(cls, data).ret IN
    IF cur = None
    THEN LET item == set_id_attribute_value(cls, PyInt(nid), data) IN
         Outcome(Return(item), Put(coll, PyInt(nid), item), nid + 1)
    ELSE IF cur \in DOMAIN coll
    THEN Outcome(Raise("ConflictError"), coll, nid)
    ELSE Outcome(Return(data), Put(coll, cur, data), Max(nid, cur.n + 1))

get(coll, item_id) == check_not_found(Lookup(coll, item_id))

delete(coll, nid, item_id) ==
    LET found == check_not_found(Lookup(coll, item_id)) IN
    IF found.raised # ""
    THEN Outcome(found, coll, nid)
    ELSE Outcome(found, Remove(coll, item_id), nid)

RECURSIVE delete_many(_, _, _)
delete_many(coll, nid, item_ids) ==
    IF item_ids = <<>> THEN Outcome(Return(<<>>), coll, nid)
    ELSE LET rest == delete_many(coll, nid, Tail(item_ids))
             item_id == Head(item_ids) IN
         IF item_id \in DOMAIN rest.collection
         THEN Outcome(Return(<<rest.collection[item_id]>> \o rest.ret),
                      Remove(rest.collection, item_id), nid)
         ELSE rest

filter_collection_by_kwargs(coll, kwargs) ==
    IF \E k \in DOMAIN kwargs : k \notin Attrs
    THEN Raise("RepositoryError")
    ELSE Return([i \in {j \in DOMAIN coll :
                          \A k \in DOMAIN kwargs : coll[j][k] = kwargs[k]} |-> coll[i]])

exists(coll, kwargs) ==
    LET found == filter_collection_by_kwargs(coll, kwargs) IN
    IF found.raised # "" THEN found ELSE Return(PyBool(DOMAIN found.ret # {}))

get_one_or_none(coll, kwargs) ==
    LET found == filter_collection_by_kwargs(coll, kwargs) IN
    IF found.raised # "" THEN found
    ELSE IF DOMAIN found.ret = {} THEN Return(None)
    ELSE Return(found.ret[MinKey(DOMAIN found.ret)])

get_one(coll, kwargs) ==
    LET found == get_one_or_none(coll, kwargs) IN
    IF found.raised # "" THEN found ELSE check_not_found(found.ret)

update(coll, nid, cls, data) ==
    LET item_id == get_id_attribute_value(cls, data).ret
        found == check_not_found(Lookup(coll, item_id)) IN
    IF found.raised # ""
    THEN Outcome(found, coll, nid)
    ELSE Outcome(Return(data), Put(coll, item_id, data), nid)

upsert(cls, coll, nid, data) ==
    IF get_id_attribute_value(cls, data).ret \in DOMAIN coll
    THEN update(coll, nid, cls, data)
    ELSE add(cls, coll, nid, data)

\* The result of get_or_create: the instance and whether it was created.
Created(out, flag) == [out EXCEPT !.ret = [entity |-> out.ret, created |-> flag]]

get_or_create_always_create(cls, coll, nid, kwargs) ==
    LET data == [a \in Attrs |-> IF a \in DOMAIN kwargs THEN kwargs[a] ELSE None]
        made == add(cls, coll, nid, [data EXCEPT ![cls] = None]) IN
    Created(made, TRUE)

get_or_create(cls, coll, nid, kwargs) ==
    LET existing == get_one_or_none(coll, kwargs) IN
    IF existing.raised # "" THEN Outcome(existing, coll, nid)
    ELSE IF existing.ret # None THEN Created(Outcome(existing, coll, nid), FALSE)
    ELSE LET data == [a \in Attrs |-> IF a \in DOMAIN kwargs THEN kwargs[a] ELSE None]
             made == add(cls, coll, nid, data) IN
         IF made.raised # "" THEN made ELSE Created(made, TRUE)

\* Does the record pass one filter (a LimitOffset passes everything)?
Passes(item, f) ==
    CASE f.kind = "CollectionFilter" -> item[f.field_name] \in f.values
      [] f.kind = "BeforeAfter" ->
            LET v == item[f.field_name] IN
            /\ f.before # None => (v.type = "int" /\ v.n < f.before.n)
            /\ f.after # None => (v.type = "int" /\ v.n > f.after.n)
      [] OTHER -> TRUE

\* The identifiers of the records of `found` that pass every filter.
Matching(found, filters) ==
    {i \in DOMAIN found : \A n \in 1..Len(filters) : Passes(found[i], filters[n])}

\* The window of the last LimitOffset among the filters, if there is one.
Paginate(rows, filters) ==
    LET at == {n \in 1..Len(filters) : filters[n].kind = "LimitOffset"} IN
    IF at = {} THEN rows
    ELSE LET f == filters[CHOOSE n \in at : \A m \in at : m <= n] IN
         SubSeq(rows, f.offset + 1, IF f.offset + f.limit <= Len(rows)
                                    THEN f.offset + f.limit ELSE Len(rows))

count(coll, filters, kwargs) ==
    LET found == filter_collection_by_kwargs(coll, kwargs) IN
    IF found.raised # "" THEN found
    ELSE Return(PyInt(Cardinality(Matching(found.ret, filters))))

list(coll, filters, kwargs) ==
    LET found == filter_collection_by_kwargs(coll, kwargs) IN
    IF found.raised # "" THEN found
    ELSE Return(Paginate(InKeyOrder(coll, Matching(found.ret, filters)), filters))

\* The count taken of the page instead of the query.
list_and_count_paged(coll, filters, kwargs) ==
    LET rows == list(coll, filters, kwargs) IN
    IF rows.raised # "" THEN rows
    ELSE Return([items |-> rows.ret, count |-> Len(rows.ret)])

list_and_count(coll, filters, kwargs) ==
    LET found == filter_collection_by_kwargs(coll, kwargs) IN
    IF found.raised # "" THEN found
    ELSE Return([items |-> Paginate(InKeyOrder(coll, Matching(found.ret, filters)), filters),
                 count |-> Cardinality(Matching(found.ret, filters))])

----------------------------------------------------------------------------
(* The repository driven by a caller.                                      *)

RepoIds == {PyInt(k) : k \in 1..MaxGen}
Entities(cls) == {Entity(cls, i, PyStr(nm)) : i \in RepoIds \cup {None}, nm \in Names}
NoKwargs == [a \in {} |-> None]
NameKwargs == {[name |-> PyStr(nm)] : nm \in Names}
Kwargs(cls) ==
    NameKwargs \cup {(cls :> i) : i \in RepoIds}
               \cup {(cls :> i) @@ kw : i \in RepoIds, kw \in NameKwargs}
FilterValues(cls) ==
    {LimitOffset(1, 0), LimitOffset(1, 1), CollectionFilter("name", {PyStr("a")}),
     BeforeAfter(cls, PyInt(MaxGen), None)}
\* No filter, one filter, or a filter followed by another kind of filter.
FilterArgs(cls) ==
    {<<>>} \cup {<<f>> : f \in FilterValues(cls)}
           \cup {<<f, g>> : f \in {h \in FilterValues(cls) : h.kind # "LimitOffset"},
                            g \in {h \in FilterValues(cls) : h.kind # "CollectionFilter"}}
ReadKwargs(cls) == NameKwargs \cup {(cls :> PyInt(1))}
ListKwargs == {NoKwargs, [name |-> PyStr("a")]}
ProbeIds == RepoIds \cup {None, PyInt(0)}
StoredIds == {get_id_attribute_value(id_attribute, collection[k]).ret : k \in DOMAIN collection}

\* The instances a caller passes: fresh ones, and the instance the last call
\* returned (add, update and upsert return the instance they were given).
Instances ==
    Entities(id_attribute) \cup
        (IF last.op \in {"add", "update", "upsert"} /\ last.raised = "" THEN {last.ret} ELSE {})

InitRepo ==
    /\ id_attribute \in IdAttributes
    /\ collection = EmptyCollection
    /\ next_id = 1
    /\ added = EmptyCollection
    /\ last = NoCall
    /\ HelpersIdle /\ ConfigIdle /\ ExampleIdle /\ OpenAPIIdle /\ PaginationIdle

\* What a call leaves alone: the class, the other components.
RepoFrame ==
    UNCHANGED <<id_attribute, objs, config, state, gen, handler, request,
                openapi, paginator>>
Reads(op, args, outcome) ==
    /\ last' = Call(op, args, outcome)
    /\ UNCHANGED <<collection, next_id, added>>
    /\ RepoFrame
Writes(op, args, out) ==
    /\ out.next_id <= MaxGen + 1
    /\ last' = Call(op, args, out)
    /\ collection' = out.collection
    /\ next_id' = out.next_id
    /\ RepoFrame

Add(data) ==
    LET out == add(id_attribute, collection, next_id, data) IN
    /\ Writes("add", <<data>>, out)
    /\ added' = IF out.raised = ""
                THEN Put(added, get_id_attribute_value(id_attribute, out.ret).ret, out.ret)
                ELSE added

Delete(item_id) ==
    LET out == delete(collection, next_id, item_id) IN
    /\ Writes("delete", <<item_id>>, out)
    /\ added' = IF out.raised = "" THEN Remove(added, item_id) ELSE added

DeleteMany(item_ids) ==
    LET out == delete_many(collection, next_id, item_ids) IN
    /\ Writes("delete_many", <<item_ids>>, out)
    /\ added' = [k \in DOMAIN added \cap DOMAIN out.collection |-> added[k]]

Update(data) ==
    LET out == update(collection, next_id, id_attribute, data) IN
    /\ Writes("update", <<data>>, out)
    /\ added' = IF out.raised = "" THEN Remove(added, data[id_attribute]) ELSE added

Upsert(data) ==
    LET out == upsert(id_attribute, collection, next_id, data) IN
    /\ Writes("upsert", <<data>>, out)
    /\ added' = IF out.raised = "" THEN Remove(added, data[id_attribute]) ELSE added

GetOrCreate(kwargs) ==
    LET out == get_or_create(id_attribute, collection, next_id, kwargs) IN
    /\ Writes("get_or_create", <<kwargs>>, out)
    /\ UNCHANGED added

Get(item_id) == Reads("get", <<item_id>>, get(collection, item_id))
GetOne(kwargs) == Reads("get_one", <<kwargs>>, get_one(collection, kwargs))
GetOneOrNone(kwargs) == Reads("get_one_or_none", <<kwargs>>, get_one_or_none(collection, kwargs))
Exists(kwargs) == Reads("exists", <<kwargs>>, exists(collection, kwargs))
Count(filters, kwargs) == Reads("count", <<filters, kwargs>>, count(collection, filters, kwargs))
List(filters, kwargs) == Reads("list", <<filters, kwargs>>, list(collection, filters, kwargs))
ListAndCount(filters, kwargs) ==
    Reads("list_and_count", <<filters, kwargs>>, list_and_count(collection, filters, kwargs))

NextRepo ==
    \/ \E data \in Instances : Add(data)
    \/ \E item_id \in ProbeIds : Delete(item_id)
    \/ \E i \in RepoIds, j \in RepoIds : DeleteMany(<<i, j>>)
    \/ \E data \in Instances : Update(data)
    \/ \E data \in Instances : Upsert(data)
    \/ \E kwargs \in Kwargs(id_attribute) : GetOrCreate(kwargs)
    \/ \E item_id \in ProbeIds : Get(item_id)
    \/ \E kwargs \in ReadKwargs(id_attribute) : GetOne(kwargs)
    \/ \E kwargs \in ReadKwargs(id_attribute) : GetOneOrNone(kwargs)
    \/ \E kwargs \in ReadKwargs(id_attribute) \cup {[nonexistent_field |-> PyStr("x")]} :
            Exists(kwargs)
    \/ \E filters \in FilterArgs(id_attribute), kwargs \in ListKwargs : Count(filters, kwargs)
    \/ \E filters \in FilterArgs(id_attribute), kwargs \in ListKwargs : List(filters, kwargs)
    \/ \E filters \in FilterArgs(id_attribute), kwargs \in ListKwargs :
            ListAndCount(filters, kwargs)

SpecRepo == InitRepo /\ [][NextRepo]_vars

----------------------------------------------------------------------------
(* The contract's properties.                                              *)

MatchCount(coll, kwargs) == Cardinality(DOMAIN filter_collection_by_kwargs(coll, kwargs).ret)

\* C3: in every reachable state and for every item_id that identifies no
\* stored entity, get(item_id) and delete(item_id) fail with NotFoundError,
\* delete leaves the collection as it is, and exists(<id_attribute>=item_id)
\* returns False without raising.
C3_AbsentId ==
    /\ \A item_id \in ProbeIds \ StoredIds :
        /\ get(collection, item_id) = Raise("NotFoundError")
        /\ delete(collection, next_id, item_id).raised = "NotFoundError"
        /\ delete(collection, next_id, item_id).collection = collection
        /\ exists(collection, (id_attribute :> item_id)) = Return(PyBool(FALSE))
    /\ (last.op = "get" /\ last.args[1] \notin StoredIds) => last.raised = "NotFoundError"

\* C3 witness: a delete of an absent identifier failed on a repository that
\* holds other entities.
C3_Witness ==
    /\ last.op = "delete"
    /\ last.raised = "NotFoundError"
    /\ last.args[1] \in RepoIds \ StoredIds
    /\ collection # EmptyCollection

\* C4: an entity added with add() and neither updated nor deleted since is
\* what get() of its identifier returns.
C4_AddGetRoundTrip ==
    /\ \A k \in DOMAIN added :
        get(collection, get_id_attribute_value(id_attribute, added[k]).ret) = Return(added[k])
    /\ (last.op = "get" /\ last.args[1] \in DOMAIN added)
            => (last.raised = "" /\ last.ret = added[last.args[1]])

\* C4 witness: get() returned an entity whose identifier add() generated,
\* with another entity stored beside it.
C4_Witness ==
    /\ last.op = "get"
    /\ last.raised = ""
    /\ last.args[1] \in DOMAIN added
    /\ last.ret = added[last.args[1]]
    /\ last.ret[id_attribute] = PyInt(2)
    /\ Cardinality(DOMAIN collection) = 2

\* What the second of two successive identical get_or_create calls does.
SecondGetOrCreate ==
    (/\ last.op = "get_or_create" /\ last.raised = "" /\ last.ret.created
     /\ last'.op = "get_or_create" /\ last'.args = last.args)
        => /\ last'.raised = ""
           /\ ~last'.ret.created
           /\ last'.ret.entity = last.ret.entity
           /\ collection' = collection
           /\ MatchCount(collection', last'.args[1]) = 1

\* What a get_or_create call that finds no match does when it succeeds.
CreatedOne ==
    /\ last'.raised = ""
    /\ last'.ret.created
    /\ \A a \in DOMAIN last'.args[1] : last'.ret.entity[a] = last'.args[1][a]
    /\ MatchCount(collection', last'.args[1]) = 1
    /\ last'.ret.entity \in {collection'[k] : k \in DOMAIN collection'}

C6_CountIgnoresPagination ==
    \A kwargs \in ListKwargs :
    \A filters \in {f \in FilterArgs(id_attribute) :
                        \A n \in 1..Len(f) : f[n].kind # "LimitOffset"} :
        LET total == list_and_count(collection, filters, kwargs).ret.count IN
        /\ total = Len(list(collection, filters, kwargs).ret)
        /\ \A page \in {f \in FilterValues(id_attribute) : f.kind = "LimitOffset"} :
            \A paged \in {Append(filters, page), <<page>> \o filters} :
                /\ list_and_count(collection, paged, kwargs).ret.count = total
                /\ list_and_count(collection, paged, kwargs).ret.items
                        = list(collection, paged, kwargs).ret

\* C6 witness: a paged list_and_count returned fewer items than its count.
C6_Witness ==
    /\ last.op = "list_and_count"
    /\ last.raised = ""
    /\ \E n \in 1..Len(last.args[1]) : last.args[1][n].kind = "LimitOffset"
    /\ Len(last.ret.items) = 1
    /\ last.ret.count = 2

----------------------------------------------------------------------------
(* CompressionConfig: the validation run when an instance is constructed.  *)

MinimumSizeFloor == 0
GzipLevelMin == 0
GzipLevelMax == 9
BrotliQualityMin == 0
BrotliQualityMax == 11
BrotliLgwinMin == 10
BrotliLgwinMax == 24
DefaultMinimumSize == 500
Margin == 1

\* The checks made only for the backend chosen.
post_init_per_backend(self) ==
    IF self.minimum_size <= MinimumSizeFloor
    THEN Raise("ImproperlyConfiguredException")
    ELSE IF self.backend = "gzip"
              /\ (self.gzip_compress_level < GzipLevelMin \/ self.gzip_compress_level > GzipLevelMax)
    THEN Raise("ImproperlyConfiguredException")
    ELSE IF self.backend = "brotli"
              /\ (self.brotli_quality < BrotliQualityMin \/ self.brotli_quality > BrotliQualityMax)
    THEN Raise("ImproperlyConfiguredException")
    ELSE IF self.backend = "brotli"
              /\ (self.brotli_lgwin < BrotliLgwinMin \/ self.brotli_lgwin > BrotliLgwinMax)
    THEN Raise("ImproperlyConfiguredException")
    ELSE Return(None)

\* CompressionConfig.__post_init__
post_init(self) ==
    IF self.minimum_size <= MinimumSizeFloor
    THEN Raise("ImproperlyConfiguredException")
    ELSE IF self.gzip_compress_level < GzipLevelMin \/ self.gzip_compress_level > GzipLevelMax
    THEN Raise("ImproperlyConfiguredException")
    ELSE IF self.brotli_quality < BrotliQualityMin \/ self.brotli_quality > BrotliQualityMax
    THEN Raise("ImproperlyConfiguredException")
    ELSE IF self.brotli_lgwin < BrotliLgwinMin \/ self.brotli_lgwin > BrotliLgwinMax
    THEN Raise("ImproperlyConfiguredException")
    ELSE Return(None)

Backends == {"gzip", "brotli"}
Around(lo, hi) == (lo - Margin)..(hi + Margin)

InitConfig ==
    /\ config = [called |-> FALSE]
    /\ id_attribute = "id"
    /\ last = NoCall
    /\ HelpersIdle /\ RepoIdle /\ ExampleIdle /\ OpenAPIIdle /\ PaginationIdle

\* CompressionConfig(backend, minimum_size=..., ...): the dataclass sets the
\* fields and runs __post_init__.
CompressionConfig(backend, minimum_size, gzip_compress_level, brotli_quality, brotli_lgwin) ==
    LET self == [backend |-> backend, minimum_size |-> minimum_size,
                 gzip_compress_level |-> gzip_compress_level,
                 brotli_quality |-> brotli_quality, brotli_lgwin |-> brotli_lgwin] IN
    /\ config' = [called |-> TRUE, self |-> self, raised |-> post_init(self).raised]
    /\ UNCHANGED <<id_attribute, objs, collection, next_id, added, last,
                   state, gen, handler, request,
                   openapi, paginator>>

\* The caller is done with the instance (or with the exception).
Discard ==
    /\ config.called
    /\ config' = [called |-> FALSE]
    /\ UNCHANGED <<id_attribute, objs, collection, next_id, added, last,
                   state, gen, handler, request,
                   openapi, paginator>>

NextConfig ==
    \/ Discard
    \/ /\ ~config.called
       /\ \E backend \in Backends,
            minimum_size \in Around(MinimumSizeFloor, MinimumSizeFloor + 1)
                                \cup {DefaultMinimumSize},
            gzip_compress_level \in Around(GzipLevelMin, GzipLevelMax),
            brotli_quality \in Around(BrotliQualityMin, BrotliQualityMax),
            brotli_lgwin \in Around(BrotliLgwinMin, BrotliLgwinMax) :
                CompressionConfig(backend, minimum_size, gzip_compress_level,
                                  brotli_quality, brotli_lgwin)

SpecConfig == InitConfig /\ [][NextConfig]_vars

\* The documented ranges of the four validated fields.
InDocumentedRanges(self) ==
    /\ self.minimum_size > 0
    /\ self.gzip_compress_level \in 0..9
    /\ self.brotli_quality \in 0..11
    /\ self.brotli_lgwin \in 10..24

\* C9: constructing a CompressionConfig succeeds exactly when minimum_size,
\* gzip_compress_level, brotli_quality and brotli_lgwin are all in their
\* documented ranges, whichever backend is chosen; otherwise it raises
\* ImproperlyConfiguredException.
C9_ConfigValidation ==
    config.called =>
        /\ (config.raised = "") <=> InDocumentedRanges(config.self)
        /\ config.raised \in {"", "ImproperlyConfiguredException"}

\* C9 witness: a gzip config was refused for its brotli_lgwin alone.
C9_Witness ==
    /\ config.called
    /\ config.self.backend = "gzip"
    /\ config.raised = "ImproperlyConfiguredException"
    /\ config.self.minimum_size = 500
    /\ config.self.gzip_compress_level = 9
    /\ config.self.brotli_quality = 5
    /\ config.self.brotli_lgwin = 25

----------------------------------------------------------------------------
(* The yield dependency of the example application: generator_function,    *)
(* the handler index, and the requests that drive them one after another.  *)

MaxRequests == 4
RequestNames == {"John", "Jane"}
\* Exceptions an application may throw into the generator, with the classes
\* they are instances of.
Exceptions == {"ValueError", "UnicodeDecodeError", "KeyError", "GeneratorExit"}
IsValueError(exc) == exc \in {"ValueError", "UnicodeDecodeError"}

\* The generator's body without its finally clause: the connection is
\* closed on the paths that reach the end of the function only.
generator_function_no_finally(st, pos, sent) ==
    CASE pos = "created" /\ sent = "next" ->
            [state |-> [st EXCEPT !.connection = PyStr("open")],
             pos |-> "suspended", raised |-> "", ret |-> PyStr("hello")]
      [] pos = "suspended" /\ sent = "next" ->
            [state |-> [st EXCEPT !.result = PyStr("OK"), !.connection = PyStr("closed")],
             pos |-> "finished", raised |-> "StopIteration", ret |-> NoValue]
      [] pos = "suspended" /\ IsValueError(sent) ->
            [state |-> [st EXCEPT !.result = PyStr("error"), !.connection = PyStr("closed")],
             pos |-> "finished", raised |-> "StopIteration", ret |-> NoValue]
      [] pos = "suspended" /\ sent \in Exceptions /\ ~IsValueError(sent) ->
            [state |-> st, pos |-> "finished", raised |-> sent, ret |-> NoValue]
      [] pos = "created" /\ sent \in Exceptions ->
            [state |-> st, pos |-> "finished", raised |-> sent, ret |-> NoValue]
      [] OTHER ->
            [state |-> st, pos |-> "finished",
             raised |-> IF sent = "next" THEN "StopIteration" ELSE sent, ret |-> NoValue]

\* generator_function, advanced with next() (sent = "next") or with
\* throw(exc) (sent = exc) from the position pos: the new STATE, the new
\* position, and what the caller gets.
generator_function(st, pos, sent) ==
    CASE pos = "created" /\ sent = "next" ->
            \* try: STATE["connection"] = "open"; yield "hello"
            [state |-> [st EXCEPT !.connection = PyStr("open")],
             pos |-> "suspended", raised |-> "", ret |-> PyStr("hello")]
      [] pos = "suspended" /\ sent = "next" ->
            \* STATE["result"] = "OK"; finally: STATE["connection"] = "closed"
            [state |-> [st EXCEPT !.result = PyStr("OK"), !.connection = PyStr("closed")],
             pos |-> "finished", raised |-> "StopIteration", ret |-> NoValue]
      [] pos = "suspended" /\ IsValueError(sent) ->
            \* except ValueError: STATE["result"] = "error"; finally: ...
            [state |-> [st EXCEPT !.result = PyStr("error"), !.connection = PyStr("closed")],
             pos |-> "finished", raised |-> "StopIteration", ret |-> NoValue]
      [] pos = "suspended" /\ sent \in Exceptions /\ ~IsValueError(sent) ->
            \* finally: STATE["connection"] = "closed"; the exception goes on
            [state |-> [st EXCEPT !.connection = PyStr("closed")],
             pos |-> "finished", raised |-> sent, ret |-> NoValue]
      [] pos = "created" /\ sent \in Exceptions ->
            \* thrown into a generator that has not started: no line runs
            [state |-> st, pos |-> "finished", raised |-> sent, ret |-> NoValue]
      [] OTHER ->
            \* a finished generator runs nothing
            [state |-> st, pos |-> "finished",
             raised |-> IF sent = "next" THEN "StopIteration" ELSE sent, ret |-> NoValue]

\* index(name, message)
index(name, message) ==
    IF name = "John" THEN Return((name :> message)) ELSE Raise("ValueError")

InitExample ==
    /\ ExampleIdle
    /\ id_attribute = "id"
    /\ last = NoCall
    /\ HelpersIdle /\ RepoIdle /\ ConfigIdle /\ OpenAPIIdle /\ PaginationIdle

ExampleFrame ==
    UNCHANGED <<id_attribute, objs, collection, next_id, added, last, config,
                openapi, paginator>>

\* Deliver `sent` to the generator.
Advance(sent) ==
    LET out == generator_function(state, gen.pos, sent) IN
    /\ state' = out.state
    /\ gen' = [pos |-> out.pos, sent |-> sent]

\* A request for /{name} arrives: the dependency's generator is created.
StartRequest(name) ==
    /\ request.stage \in {"idle", "done"}
    /\ request.served < MaxRequests
    /\ request' = [served |-> request.served, name |-> name, stage |-> "resolving"]
    /\ gen' = [pos |-> "created", sent |-> ""]
    /\ handler' = Return(NoValue)
    /\ UNCHANGED state
    /\ ExampleFrame

\* The dependency is resolved: the generator's first advance.
ResolveDependency ==
    /\ request.stage = "resolving"
    /\ Advance("next")
    /\ request' = [request EXCEPT !.stage = "handling"]
    /\ UNCHANGED handler
    /\ ExampleFrame

\* The request is dropped before the dependency is resolved: the generator
\* is closed without having started.
CloseUnstarted ==
    /\ request.stage = "resolving"
    /\ Advance("GeneratorExit")
    /\ request' = [request EXCEPT !.stage = "done", !.served = @ + 1]
    /\ UNCHANGED handler
    /\ ExampleFrame

\* The handler runs with the value the generator yielded.
CallHandler ==
    /\ request.stage = "handling"
    /\ handler' = index(request.name, PyStr("hello"))
    /\ request' = [request EXCEPT !.stage = "cleanup"]
    /\ UNCHANGED <<state, gen>>
    /\ ExampleFrame

\* The handler returned and the response went out: the generator is resumed.
Resume ==
    /\ request.stage = "cleanup"
    /\ handler.raised = ""
    /\ Advance("next")
    /\ request' = [request EXCEPT !.stage = "done", !.served = @ + 1]
    /\ UNCHANGED handler
    /\ ExampleFrame

\* The handler raised, or the response failed after it returned: the
\* exception is thrown into the generator.
Throw(exc) ==
    /\ request.stage = "cleanup"
    /\ handler.raised # "" => exc = handler.raised
    /\ Advance(exc)
    /\ request' = [request EXCEPT !.stage = "done", !.served = @ + 1]
    /\ UNCHANGED handler
    /\ ExampleFrame

NextExample ==
    \/ \E name \in RequestNames : StartRequest(name)
    \/ ResolveDependency
    \/ CloseUnstarted
    \/ CallHandler
    \/ Resume
    \/ \E exc \in Exceptions : Throw(exc)

SpecExample == InitExample /\ [][NextExample]_vars

----------------------------------------------------------------------------
(* OpenAPIConfig.to_openapi_schema: the merge of a list of Components.     *)
(* Components instances and the dicts their fields hold are objects: the   *)
(* heap keeps them by reference (0 is None), so that a dict shared between *)
(* two instances is one dict.                                              *)

MaxComponents == 2
MaxCalls == 2
\* fields(components), in order (two of the fields of Components)
ComponentFields == <<"schemas", "responses">>
FieldNames == {ComponentFields[n] : n \in 1..Len(ComponentFields)}
EmptyDict == [k \in {} |-> 0]
\* What a field of a supplied Components holds: None, or a dict (values are
\* numbers standing for the schema objects).
Unset == [set |-> FALSE, d |-> EmptyDict]
Dict(d) == [set |-> TRUE, d |-> d]
FieldOptions ==
    {Unset, Dict(EmptyDict), Dict([k \in {"A"} |-> 1]), Dict([k \in {"B"} |-> 1]),
     Dict([k \in {"A", "B"} |-> 2])}

\* dict.update(other)
DictUpdate(d, other) ==
    [k \in DOMAIN d \cup DOMAIN other |-> IF k \in DOMAIN other THEN other[k] ELSE d[k]]

\* bool(getattr(components, key, None)): neither None nor an empty dict
Filled(heap, ref) == ref # 0 /\ DOMAIN heap.dicts[ref] # {}

\* The accumulator starts as the supplied dict itself
\* (`getattr(merged_components, key, None) or value`) instead of a new one.
merge_field_aliased(heap, merged, components, key) ==
    LET value == heap.comps[components][key] IN
    IF ~Filled(heap, value) THEN heap
    ELSE LET current == heap.comps[merged][key]
             target == IF Filled(heap, current) THEN current ELSE value IN
         [comps |-> [heap.comps EXCEPT ![merged][key] = target],
          dicts |-> [heap.dicts EXCEPT ![target] = DictUpdate(@, heap.dicts[value])]]

\* The body of the loop over the fields: lines 109-112.
merge_field(heap, merged, components, key) ==
    LET value == heap.comps[components][key] IN
    IF ~Filled(heap, value) THEN heap
    ELSE LET current == heap.comps[merged][key]
             \* getattr(merged_components, key, {}) or {}
             fresh == ~Filled(heap, current)
             dicts == IF fresh THEN Append(heap.dicts, EmptyDict) ELSE heap.dicts
             merged_value_dict == IF fresh THEN Len(dicts) ELSE current IN
         [comps |-> [heap.comps EXCEPT ![merged][key] = merged_value_dict],
          dicts |-> [dicts EXCEPT ![merged_value_dict] = DictUpdate(@, dicts[value])]]

\* for key in (f.name for f in fields(components)), from the n-th field on
RECURSIVE merge_fields(_, _, _, _)
merge_fields(heap, merged, components, n) ==
    IF n > Len(ComponentFields) THEN heap
    ELSE merge_fields(merge_field(heap, merged, components, ComponentFields[n]),
                      merged, components, n + 1)

\* for components in self.components, from the i-th entry on
RECURSIVE merge_components(_, _, _, _)
merge_components(heap, merged, items, i) ==
    IF i > Len(items) THEN heap
    ELSE merge_components(merge_fields(heap, merged, items[i], 1), merged, items, i + 1)

NoComponents == [kind |-> "none", ref |-> 0, items |-> <<>>]
OneComponents(ref) == [kind |-> "single", ref |-> ref, items |-> <<>>]
ComponentsList(items) == [kind |-> "list", ref |-> 0, items |-> items]

\* to_openapi_schema: self.components and the heap after the call, and the
\* components of the OpenAPI instance returned.
to_openapi_schema(components, heap) ==
    IF components.kind = "list"
    THEN LET merged_components == Len(heap.comps) + 1
             blank == [heap EXCEPT !.comps = Append(@, [f \in FieldNames |-> 0])]
             after == merge_components(blank, merged_components, components.items, 1) IN
         [components |-> OneComponents(merged_components), heap |-> after,
          schema |-> merged_components]
    ELSE [components |-> components, heap |-> heap, schema |-> components.ref]

\* A Components instance by value: each field's dict, or Unset.
Deref(heap, ref) ==
    [f \in FieldNames |->
        IF heap.comps[ref][f] = 0 THEN Unset ELSE Dict(heap.dicts[heap.comps[ref][f]])]

\* One supplied instance: a dict of its own for every field that is set.
RECURSIVE SupplyFields(_, _, _, _)
SupplyFields(dicts, instance, given, n) ==
    IF n > Len(ComponentFields) THEN [dicts |-> dicts, instance |-> instance]
    ELSE LET f == ComponentFields[n] IN
         IF given[f].set
         THEN SupplyFields(Append(dicts, given[f].d),
                           [instance EXCEPT ![f] = Len(dicts) + 1], given, n + 1)
         ELSE SupplyFields(dicts, instance, given, n + 1)

\* The heap holding the supplied instances.
RECURSIVE Supply(_, _, _)
Supply(heap, given, i) ==
    IF i > Len(given) THEN heap
    ELSE LET one == SupplyFields(heap.dicts, [f \in FieldNames |-> 0], given[i], 1) IN
         Supply([comps |-> Append(heap.comps, one.instance), dicts |-> one.dicts],
                given, i + 1)

\* OpenAPIConfig(components=...): None, one Components, or a list of them.
Configured(kind, given) ==
    [calls |-> 0,
     given |-> given,
     heap |-> Supply([comps |-> <<>>, dicts |-> <<>>], given, 1),
     components |-> CASE kind = "none" -> NoComponents
                      [] kind = "single" -> OneComponents(1)
                      [] OTHER -> ComponentsList([i \in 1..Len(given) |-> i]),
     was |-> kind,
     returned |-> <<>>,
     first |-> [f \in FieldNames |-> Unset]]

GivenLists == UNION {[1..k -> [FieldNames -> FieldOptions]] : k \in 0..MaxComponents}

InitOpenAPI ==
    /\ \/ openapi = Configured("none", <<>>)
       \/ \E given \in [1..1 -> [FieldNames -> FieldOptions]] : openapi = Configured("single", given)
       \/ \E given \in GivenLists : openapi = Configured("list", given)
    /\ id_attribute = "id"
    /\ last = NoCall
    /\ HelpersIdle /\ RepoIdle /\ ConfigIdle /\ ExampleIdle /\ PaginationIdle

ToOpenAPISchema ==
    LET out == to_openapi_schema(openapi.components, openapi.heap) IN
    /\ openapi.calls < MaxCalls
    /\ openapi' = [openapi EXCEPT
                    !.calls = @ + 1,
                    !.components = out.components,
                    !.heap = out.heap,
                    !.returned = Append(@, out.schema),
                    !.first = IF openapi.calls = 0 /\ out.schema # 0
                              THEN Deref(out.heap, out.schema) ELSE @]
    /\ UNCHANGED <<id_attribute, objs, collection, next_id, added, last, config,
                   state, gen, handler, request, paginator>>

NextOpenAPI == ToOpenAPISchema

SpecOpenAPI == InitOpenAPI /\ [][NextOpenAPI]_vars

\* The entries of the supplied list in which field f holds a non-empty dict.
Sources(given, f) == {i \in 1..Len(given) : given[i][f].set /\ DOMAIN given[i][f].d # {}}

\* The union of the dicts of field f over the list, in list order, a later
\* entry's value winning; None when the field is empty in every entry.
MergedField(given, f) ==
    LET keys == UNION {DOMAIN given[i][f].d : i \in Sources(given, f)}
        winner(k) == CHOOSE i \in Sources(given, f) :
                        /\ k \in DOMAIN given[i][f].d
                        /\ \A j \in Sources(given, f) : k \in DOMAIN given[j][f].d => j <= i IN
    IF keys = {} THEN Unset ELSE Dict([k \in keys |-> given[winner(k)][f].d[k]])

\* C11: with a list of Components, to_openapi_schema returns a schema whose
\* components hold, per field, the union of that field's dicts over the list
\* with later entries winning and empty fields left unset; the supplied
\* instances are as they were; self.components is the merged instance, none
\* of those supplied; and a second call returns an equal schema.
C11_MergedComponents ==
    (openapi.calls > 0 /\ openapi.was = "list") =>
        /\ openapi.first = [f \in FieldNames |-> MergedField(openapi.given, f)]
        /\ \A n \in 1..openapi.calls :
                Deref(openapi.heap, openapi.returned[n]) = openapi.first
        /\ \A i \in 1..Len(openapi.given) : Deref(openapi.heap, i) = openapi.given[i]
        /\ openapi.components.kind = "single"
        /\ openapi.components.ref \notin 1..Len(openapi.given)
        /\ openapi.components.ref = openapi.returned[openapi.calls]

\* C11 witness: two calls on a list of two whose "schemas" collide on key
\* "A" and whose "responses" are empty in both entries.
C11_Witness ==
    /\ openapi.calls = 2
    /\ openapi.was = "list"
    /\ Len(openapi.given) = 2
    /\ openapi.given[1]["schemas"] = Dict([k \in {"A"} |-> 1])
    /\ openapi.given[2]["schemas"] = Dict([k \in {"A", "B"} |-> 2])
    /\ openapi.given[1]["responses"] = Dict(EmptyDict)
    /\ openapi.given[2]["responses"] = Unset
    /\ openapi.first["schemas"] = Dict([k \in {"A", "B"} |-> 2])
    /\ openapi.first["responses"] = Unset

\* ---------------------------------------------------------------------------
\* docs/examples/pagination/using_classic_pagination.py: PersonClassicPaginator
\* ---------------------------------------------------------------------------

\* len(PersonFactory.batch(50)): the items are told apart by their position.
DataSize == 50
MaxPageSize == 12
MaxPage == 14

data == [i \in 1..DataSize |-> i]

\* round(a / b) for a >= 0, b > 0: Python rounds a tie to the even neighbour.
PyRound(a, b) ==
    LET q == a \div b
        r == a % b IN
    IF 2 * r < b THEN q
    ELSE IF 2 * r > b THEN q + 1
    ELSE IF q % 2 = 0 THEN q ELSE q + 1

get_total(page_size) == PyRound(Len(data), page_size)

\* range(0, len(self.data), page_size) for page_size >= 1
Range(stop, step) == [k \in 1..((stop + step - 1) \div step) |-> (k - 1) * step]

\* self.data[i : i + page_size]
Slice(seq, i, j) == SubSeq(seq, i + 1, IF j < Len(seq) THEN j ELSE Len(seq))

Chunks(page_size) ==
    LET starts == Range(Len(data), page_size) IN
    [k \in 1..Len(starts) |-> Slice(data, starts[k], starts[k] + page_size)]

\* chunks[current_page - 1]: a negative index counts from the end of the list.
get_items(page_size, current_page) ==
    LET chunks == Chunks(page_size)
        at == current_page - 1 IN
    IF at >= 0 /\ at < Len(chunks) THEN [raised |-> "", items |-> chunks[at + 1]]
    ELSE IF at < 0 /\ -at <= Len(chunks)
        THEN [raised |-> "", items |-> chunks[Len(chunks) + at + 1]]
    ELSE [raised |-> "IndexError", items |-> <<>>]

Asked(op, page_size, current_page, raised, total, items) ==
    [op |-> op, page_size |-> page_size, current_page |-> current_page,
     raised |-> raised, total |-> total, items |-> items]

InitPagination ==
    /\ PaginationIdle
    /\ id_attribute = "id"
    /\ last = NoCall
    /\ HelpersIdle
    /\ RepoIdle
    /\ ConfigIdle
    /\ ExampleIdle
    /\ OpenAPIIdle

PaginationFrame ==
    UNCHANGED <<id_attribute, objs, collection, next_id, added, last, config, state, gen,
                handler, request, openapi>>

GetTotal ==
    \E page_size \in 1..MaxPageSize :
        /\ paginator' = Asked("get_total", page_size, 0, "", get_total(page_size), <<>>)
        /\ PaginationFrame

GetItems ==
    \E page_size \in 1..MaxPageSize, current_page \in 0..MaxPage :
        LET out == get_items(page_size, current_page) IN
        /\ paginator' = Asked("get_items", page_size, current_page, out.raised, 0, out.items)
        /\ PaginationFrame

NextPagination ==
    \/ GetTotal
    \/ GetItems

SpecPagination == InitPagination /\ [][NextPagination]_vars

RECURSIVE Concat(_, _)
Concat(pages, n) == IF n = 0 THEN <<>> ELSE Concat(pages, n - 1) \o pages[n]

\* C12: whenever get_total(page_size) has returned, the total is the number of
\* chunks of at most page_size items the 50 items fall into, every page
\* 1..total that get_items serves is a non-empty page of at most page_size
\* items, and the pages 1..total laid end to end are the 50 items, each once.
C12_TotalCoversAllItems ==
    (paginator # NoCall /\ paginator.op = "get_total") =>
        LET page_size == paginator.page_size
            total == paginator.total
            pages == [p \in 1..total |-> get_items(page_size, p)] IN
        /\ total = Len(Chunks(page_size))
        /\ \A p \in 1..total :
            /\ pages[p].raised = ""
            /\ Len(pages[p].items) \in 1..page_size
        /\ Concat([p \in 1..total |-> pages[p].items], total) = data

====
